---- MODULE Spec2Model ----
(***************************************************************************)
(* Model of isis_scripts/tgocassis_misregistration.py: the batch traversal *)
(* of main, the per-mosaic pipeline _compute_bands_mismatch (_explode,     *)
(* _bands, _register), the optional rendering and the csv report.          *)
(*                                                                         *)
(* The external toolkit (explode, catlab, coreg) is the environment: each  *)
(* invocation draws its exit status and its output from small sets.  File  *)
(* names are sequences of one-character strings so that the substring and  *)
(* split operations of the code are computed, not assumed.  Shift values   *)
(* are integers in tenths of a pixel; medians and means are exact          *)
(* rationals <<numerator, denominator>>, NaN being <<0, 0>>.               *)
(***************************************************************************)
EXTENDS Integers, Sequences, FiniteSets, TLC

\* ---------------------------------------------------------------- bounds
MaxFiles == 2

\* ------------------------------------------------------------ generic helpers
Range(s) == {s[i] : i \in 1..Len(s)}

SeqsUpTo(S, n) == UNION {[1..k -> S] : k \in 0..n}

RECURSIVE Gcd(_, _)
Gcd(a, b) == IF b = 0 THEN a ELSE Gcd(b, a % b)

Abs(a) == IF a < 0 THEN -a ELSE a

\* a rational in lowest terms with a positive denominator
Rat(n, d) ==
    LET g == Gcd(Abs(n), d) IN <<n \div g, d \div g>>

NaN == <<0, 0>>

\* ------------------------------------------------------------- file names
Cub == <<".", "c", "u", "b">>

FileNames ==
    { <<"a">> \o Cub,
      <<"b">> \o Cub \o <<".", "x">>,
      <<"n", ".", "c", "u">> }

\* substring test of line 185: '.cub' in filename
Contains(sub, s) ==
    \E k \in 0..(Len(s) - Len(sub)) :
        \A j \in 1..Len(sub) : s[k + j] = sub[j]

\* the test written as filename.endswith('.cub')
IsCandidate_endswith(filename) ==
    Len(filename) >= 4 /\ SubSeq(filename, Len(filename) - 3, Len(filename)) = Cub

IsCandidate(filename) == Contains(Cub, filename)

\* os.path.basename(path).split('.')[0]: the characters before the first dot
RECURSIVE UpToDot(_, _)
UpToDot(s, i) ==
    IF i > Len(s) \/ s[i] = "." THEN SubSeq(s, 1, i - 1) ELSE UpToDot(s, i + 1)

_basename_wo_extension(path_to_file) == UpToDot(path_to_file, 1)

\* filename[:-4]
DropLast4(s) == IF Len(s) <= 4 THEN <<>> ELSE SubSeq(s, 1, Len(s) - 4)

\* ------------------------------------------------------- '{:04d}'.format(n)
RECURSIVE Digits(_)
Digits(n) == IF n < 10 THEN <<n>> ELSE Digits(n \div 10) \o <<n % 10>>

RECURSIVE PadZero(_, _)
PadZero(d, w) == IF Len(d) >= w THEN d ELSE PadZero(<<0>> \o d, w)

Format04d(n) == PadZero(Digits(n), 4)

\* the index used as it comes from enumerate, 0-based
BandPath_zero_based(explode_prefix, band_index) ==
    [dir |-> explode_prefix.dir, base |-> explode_prefix.base,
     band |-> Format04d(band_index)]

\* explode_prefix + '.band{:04d}.cub'.format(band_index + 1)
BandPath(explode_prefix, band_index) ==
    [dir |-> explode_prefix.dir, base |-> explode_prefix.base,
     band |-> Format04d(band_index + 1)]

\* -------------------------------------------------------- catlab and _bands
\* What catlab can print for a mosaic.  marker = FALSE is output without the
\* 'FilterName = (' / ' Samples = ' / ' Lines   = ' markers (an error text):
\* the fixed offsets of _bands then slice some other part of the text.
CatlabOutputs ==
    { [status |-> 0, marker |-> TRUE,  filters |-> <<"RED", "NIR">>],
      [status |-> 0, marker |-> TRUE,  filters |-> <<"RED", "BLU">>],
      [status |-> 0, marker |-> TRUE,  filters |-> <<"NIR", "RED", "NIR">>],
      [status |-> 1, marker |-> FALSE, filters |-> <<"**ERROR**">>] }

\* the status is dropped (line 139: _, output_string = ...)
_bands(output) == output.filters

\* -------------------------------------------------- the dictionary of _explode
EmptyDict == [k \in {} |-> 0]

DictSet(d, k, v) == [x \in (DOMAIN d) \cup {k} |-> IF x = k THEN v ELSE d[x]]

\* the for loop of lines 125-128, band_index being 0-based
RECURSIVE ExplodeLoop(_, _, _, _)
ExplodeLoop(bands_list, band_index, explode_prefix, path_to_band_files) ==
    IF band_index >= Len(bands_list)
    THEN path_to_band_files
    ELSE ExplodeLoop(bands_list, band_index + 1, explode_prefix,
                     DictSet(path_to_band_files, bands_list[band_index + 1],
                             BandPath(explode_prefix, band_index)))

\* ------------------------------------------------- coreg results and loadtxt
TableRow(sx, sy, xs, ys) == <<sx, sy, 0, 0, xs, ys, 0>>

T_one == << TableRow(5, 5, 10, -3) >>

T_two == << TableRow(5, 5, 10, 2), TableRow(9, 5, 13, 4) >>

T_five ==
    << TableRow(1, 1, 10, 4), TableRow(9, 1, 12, 6), TableRow(1, 9, 9, 5),
       TableRow(9, 9, 11, 5), TableRow(5, 5, 10, 8) >>

T_bad == << <<5, 5, 0, 0, 10, 2>> >>

\* contents of the flat file after a coreg that exited with status 0
Tables == { <<>>, T_one, T_two, T_five, T_bad }

\* the file as mkstemp leaves it: no header, no rows
EmptyFile == [header |-> FALSE, rows |-> <<>>]

Column(rows, c) == [i \in 1..Len(rows) |-> rows[i][c]]

\* np.loadtxt(results_filename, skiprows=1, delimiter=',').T followed by the
\* unpacking into seven names: a value error unless there is at least one
\* data row and every row has seven columns.
LoadtxtFails(content) ==
    \/ content.rows = <<>>
    \/ \E i \in 1..Len(content.rows) : Len(content.rows[i]) # 7

\* ----------------------------------------------------------- median and mean
RECURSIVE Insert(_, _)
Insert(sorted, v) ==
    IF sorted = <<>> THEN <<v>>
    ELSE IF v <= Head(sorted) THEN <<v>> \o sorted
    ELSE <<Head(sorted)>> \o Insert(Tail(sorted), v)

RECURSIVE Sort(_)
Sort(s) == IF s = <<>> THEN <<>> ELSE Insert(Sort(Tail(s)), Head(s))

\* the upper middle element taken for an even number of samples too
Median_upper_middle(s) ==
    LET t == Sort(s) IN Rat(t[Len(s) \div 2 + 1], 1)

\* np.median of a non-empty sample sequence
Median(s) ==
    LET t == Sort(s)
        n == Len(s)
    IN  IF n % 2 = 1 THEN Rat(t[(n + 1) \div 2], 1)
        ELSE Rat(t[n \div 2] + t[n \div 2 + 1], 2)

\* sum of rationals, as a rational
RECURSIVE RatSum(_)
RatSum(s) ==
    IF s = <<>> THEN <<0, 1>>
    ELSE LET r == RatSum(Tail(s)) IN
         Rat(Head(s)[1] * r[2] + r[1] * Head(s)[2], Head(s)[2] * r[2])

\* an empty list guarded by a zero
Mean_zero_when_empty(s) ==
    IF s = <<>> THEN <<0, 1>>
    ELSE LET t == RatSum(s) IN Rat(t[1], t[2] * Len(s))

\* np.mean of a list of medians: nan (with a warning, no exception) when empty
Mean(s) ==
    IF s = <<>> THEN NaN
    ELSE LET t == RatSum(s) IN Rat(t[1], t[2] * Len(s))

\* ------------------------------------------------------------------- state
VARIABLES
    tree,            \* file names of the input folder, in os.walk order
    source_band, target_band, visualize,    \* the options of main
    pc,              \* where main is
    idx,             \* 1-based position in tree of the file the loop is at
    output_file,     \* [header, rows, closed]: the csv file
    x_shifts, y_shifts,   \* the accumulators of lines 181-182
    bands_list,      \* what _bands returned for the current mosaic
    bands_files,     \* what _explode returned for the current mosaic
    explode_status,  \* exit status of the last explode (the code drops it)
    coreg_call,      \* arguments and exit status of the last coreg, or NoCall
    results,         \* contents of the flat file of the last coreg
    result,          \* what _compute_bands_mismatch returned: Unset, None or
                     \* the four sequences
    tmp,             \* temporary files and directories that exist
    next_tmp,        \* number of temporary names handed out so far
    images,          \* visualization files written
    events,          \* history: << <<operation, idx, detail>>, ... >>
    raised           \* "" or the function an uncaught exception came from

vars == <<tree, source_band, target_band, visualize, pc, idx, output_file,
          x_shifts, y_shifts, bands_list, bands_files, explode_status,
          coreg_call, results, result, tmp, next_tmp, images, events, raised>>

params == <<tree, source_band, target_band, visualize>>

\* a temporary name made by tempfile (mkdtemp, mkstemp)
TmpPath(n) == [dir |-> n, base |-> <<>>, band |-> <<>>]

NoCall == [called |-> FALSE, from |-> TmpPath(0), match |-> TmpPath(0),
           deffile |-> TmpPath(0), flatfile |-> TmpPath(0), status |-> 0]

Shifts(xs, ys, xsh, ysh) ==
    [kind |-> "shifts", x_source |-> xs, y_source |-> ys,
     x_shift |-> xsh, y_shift |-> ysh]

Unset == [kind |-> "unset", x_source |-> <<>>, y_source |-> <<>>,
          x_shift |-> <<>>, y_shift |-> <<>>]

None == [kind |-> "None", x_source |-> <<>>, y_source |-> <<>>,
         x_shift |-> <<>>, y_shift |-> <<>>]

field_names == <<"filename", "x_shift", "y_shift">>

\* target_band is declared is_flag (line 170): the command line yields a
\* boolean, written here "False"; the body of main compares whatever it gets
\* with the band names, so band names are covered as well.
SourceBands == {"RED", "BLU"}

TargetBands == {"NIR", "False"}

\* lines 174-182: the file is opened, the header written, the lists empty
Init ==
    /\ tree \in SeqsUpTo(FileNames, MaxFiles)
    /\ source_band \in SourceBands
    /\ target_band \in TargetBands
    /\ visualize \in BOOLEAN
    /\ pc = "walk"
    /\ idx = 1
    /\ output_file = [header |-> field_names, rows |-> <<>>, closed |-> FALSE]
    /\ x_shifts = <<>>
    /\ y_shifts = <<>>
    /\ bands_list = <<>>
    /\ bands_files = EmptyDict
    /\ explode_status = 0
    /\ coreg_call = NoCall
    /\ results = EmptyFile
    /\ result = Unset
    /\ tmp = {}
    /\ next_tmp = 0
    /\ images = {}
    /\ events = <<>>
    /\ raised = ""

\* an entry of the history: the operation, the file it was for and, for
\* _bands, the list it returned
Event(op, detail) == <<op, idx, detail>>

Log(op) == Append(events, Event(op, <<>>))

\* lines 183-190: the next file of the walk; a file that is no candidate is
\* passed over
Walk ==
    /\ pc = "walk"
    /\ idx <= Len(tree)
    /\ IF IsCandidate(tree[idx])
       THEN /\ pc' = "explode"
            /\ idx' = idx
       ELSE /\ pc' = "walk"
            /\ idx' = idx + 1
    /\ UNCHANGED <<params, output_file, x_shifts, y_shifts, bands_list,
                   bands_files, explode_status, coreg_call, results, result,
                   tmp, next_tmp, images, events, raised>>

\* lines 116-129: _explode.  mkdtemp, the explode command (status dropped by
\* os.system), then _bands and the dictionary.  The band files exist only if
\* explode succeeded, one per band of the mosaic; the bands of the mosaic are
\* taken to be the ones catlab lists, and a mosaic catlab cannot read is one
\* explode writes nothing for.
Explode ==
    /\ pc = "explode"
    /\ \E status \in {0, 1}, output \in CatlabOutputs :
        LET basename == _basename_wo_extension(tree[idx])
            explode_prefix == [dir |-> next_tmp + 1, base |-> basename]
            list == _bands(output)
            written ==
                IF status = 0 /\ output.marker
                THEN {[kind |-> "band", owner |-> idx,
                       path |-> BandPath(explode_prefix, i - 1)] :
                          i \in 1..Len(list)}
                ELSE {}
        IN  /\ explode_status' = status
            /\ bands_list' = list
            /\ bands_files' = ExplodeLoop(list, 0, explode_prefix, EmptyDict)
            /\ tmp' = tmp \cup written
                      \cup {[kind |-> "dir", owner |-> idx,
                             path |-> TmpPath(next_tmp + 1)]}
            /\ next_tmp' = next_tmp + 1
            /\ events' = events \o << Event("explode", <<>>),
                                      Event("_bands", list) >>
    /\ pc' = "check"
    /\ coreg_call' = NoCall
    /\ results' = EmptyFile
    /\ result' = Unset
    /\ UNCHANGED <<params, idx, output_file, x_shifts, y_shifts, images,
                   raised>>

\* the test written with 'and'
BandNotIn_and(files, source, target) ==
    (source \notin DOMAIN files) /\ (target \notin DOMAIN files)

\* line 159: (source_band not in bands_files) or (target_band not in ...)
BandNotIn(files, source, target) ==
    (source \notin DOMAIN files) \/ (target \notin DOMAIN files)

\* lines 159-160 and 193: the band check; None sends main to the next file
CheckBands ==
    /\ pc = "check"
    /\ events' = Log("check")
    /\ IF BandNotIn(bands_files, source_band, target_band)
       THEN /\ result' = None
            /\ pc' = "walk"
            /\ idx' = idx + 1
       ELSE /\ result' = result
            /\ pc' = "register"
            /\ idx' = idx
    /\ UNCHANGED <<params, output_file, x_shifts, y_shifts, bands_list,
                   bands_files, explode_status, coreg_call, results, tmp,
                   next_tmp, images, raised>>

\* the rendering done whether or not visualize is set
AfterRegister_always == "render"

\* line 195: if visualize
AfterRegister == IF visualize THEN "render" ELSE "record"

BandFileExists(path) ==
    \E t \in tmp : t.kind = "band" /\ t.path = path

\* what coreg can leave behind: with both inputs readable it may succeed and
\* write a table, or fail; without them it fails.  A failed coreg leaves the
\* flat file as mkstemp made it.
CoregOutcomes(from, match) ==
    {[status |-> 1, content |-> EmptyFile]}
    \cup (IF BandFileExists(from) /\ BandFileExists(match)
          THEN {[status |-> 0, content |-> [header |-> TRUE, rows |-> t]] :
                    t \in Tables}
          ELSE {})

\* lines 161-162 and 146-154: _register on the two band files.  mkstemp and
\* _make_deffile make two temporary files, coreg runs (status dropped), the
\* flat file is parsed; a parse that fails raises out of main.
Register ==
    /\ pc = "register"
    /\ LET source_filename == bands_files[source_band]
           target_filename == bands_files[target_band]
           results_filename == TmpPath(next_tmp + 1)
           search_deffile == TmpPath(next_tmp + 2)
       IN
       \E o \in CoregOutcomes(source_filename, target_filename) :
        /\ coreg_call' = [called |-> TRUE, from |-> source_filename,
                          match |-> target_filename,
                          deffile |-> search_deffile,
                          flatfile |-> results_filename, status |-> o.status]
        /\ results' = o.content
        /\ tmp' = tmp \cup {[kind |-> "results", owner |-> idx,
                             path |-> results_filename],
                            [kind |-> "def", owner |-> idx,
                             path |-> search_deffile]}
        /\ next_tmp' = next_tmp + 2
        /\ events' = Log("coreg")
        /\ IF LoadtxtFails(o.content)
           THEN /\ pc' = "raised"
                /\ raised' = "_register"
                /\ result' = result
           ELSE /\ pc' = AfterRegister
                /\ raised' = raised
                /\ result' = Shifts(Column(o.content.rows, 1),
                                    Column(o.content.rows, 2),
                                    Column(o.content.rows, 5),
                                    Column(o.content.rows, 6))
    /\ UNCHANGED <<params, idx, output_file, x_shifts, y_shifts, bands_list,
                   bands_files, explode_status, images>>

\* lines 187-190: the two visualization files of a mosaic
VisualizationFiles(filename) ==
    {[stem |-> DropLast4(filename), suffix |-> "_x_shift.png"],
     [stem |-> DropLast4(filename), suffix |-> "_y_shift.png"]}

\* lines 195-219: _size (catlab again, status dropped), the interpolation and
\* the two heat-maps.  int() of a text without the markers raises; griddata
\* raises when there are fewer than three samples to triangulate.
Visualize ==
    /\ pc = "render"
    /\ \E output \in CatlabOutputs :
        IF ~output.marker
        THEN /\ pc' = "raised"
             /\ raised' = "_size"
             /\ events' = Log("_size")
             /\ images' = images
        ELSE IF Len(result.x_shift) < 3
        THEN /\ pc' = "raised"
             /\ raised' = "griddata"
             /\ events' = Log("_size")
             /\ images' = images
        ELSE /\ pc' = "record"
             /\ raised' = raised
             /\ events' = events \o << Event("_size", <<>>),
                                       Event("render", <<>>) >>
             /\ images' = images \cup VisualizationFiles(tree[idx])
    /\ UNCHANGED <<params, idx, output_file, x_shifts, y_shifts, bands_list,
                   bands_files, explode_status, coreg_call, results, result,
                   tmp, next_tmp>>

\* lines 220-226: the medians go to the accumulators, the row to the file
Record ==
    /\ pc = "record"
    /\ x_shifts' = Append(x_shifts, Median(result.x_shift))
    /\ y_shifts' = Append(y_shifts, Median(result.y_shift))
    /\ output_file' =
         [output_file EXCEPT !.rows =
             Append(@, [filename |-> tree[idx], x_shift |-> result.x_shift,
                        y_shift |-> result.y_shift])]
    /\ events' = Log("row")
    /\ idx' = idx + 1
    /\ pc' = "walk"
    /\ UNCHANGED <<params, bands_list, bands_files, explode_status,
                   coreg_call, results, result, tmp, next_tmp, images, raised>>

AverageLabel == <<"a", "v", "e", "r", "a", "g", "e">>

\* lines 227-232: after the walk, the average row and the close
Average ==
    /\ pc = "walk"
    /\ idx > Len(tree)
    /\ output_file' =
         [output_file EXCEPT
             !.rows = Append(@, [filename |-> AverageLabel,
                                 x_shift |-> Mean(x_shifts),
                                 y_shift |-> Mean(y_shifts)]),
             !.closed = TRUE]
    /\ events' = Log("average")
    /\ pc' = "done"
    /\ UNCHANGED <<params, idx, x_shifts, y_shifts, bands_list, bands_files,
                   explode_status, coreg_call, results, result, tmp, next_tmp,
                   images, raised>>

Next ==
    \/ Walk
    \/ Explode
    \/ CheckBands
    \/ Register
    \/ Visualize
    \/ Record
    \/ Average

Spec == Init /\ [][Next]_vars

\* ------------------------------------------------------------ claim helpers
Last(s) == s[Len(s)]

\* the number a sequence of decimal digits stands for
RECURSIVE DigitsValue(_)
DigitsValue(d) ==
    IF d = <<>> THEN 0
    ELSE 10 * DigitsValue(SubSeq(d, 1, Len(d) - 1)) + d[Len(d)]

\* the 1-based positions of a band name in a band list
Positions(list, name) == {i \in 1..Len(list) : list[i] = name}

Max(S) == CHOOSE m \in S : \A x \in S : x <= m

\* _compute_bands_mismatch has passed its band check for the current mosaic
Checked ==
    \/ result.kind # "unset"
    \/ pc \in {"register", "render", "record", "raised"}

BandAbsent ==
    \/ source_band \notin Range(bands_list)
    \/ target_band \notin Range(bands_list)

\* C1: _compute_bands_mismatch returns None exactly when the source or the
\* target band is not in the list _bands returned for the mosaic; otherwise
\* coreg is run on the band files of the source and of the target band (a
\* file whose number is a position of that name in the list, in the newest
\* directory _explode made) and what _register parsed from its flat file is
\* the value returned.
C1_NoneIffBandAbsent ==
    /\ Checked => (result.kind = "None" <=> BandAbsent)
    /\ coreg_call.called =>
         /\ ~BandAbsent
         /\ DigitsValue(coreg_call.from.band) \in Positions(bands_list, source_band)
         /\ DigitsValue(coreg_call.match.band) \in Positions(bands_list, target_band)
         /\ coreg_call.from.dir = coreg_call.match.dir
         /\ \E t \in tmp : /\ t.kind = "dir"
                           /\ t.path.dir = coreg_call.from.dir
                           /\ \A u \in tmp :
                                u.kind = "dir" => u.path.dir <= t.path.dir
    /\ result.kind = "shifts" =>
         /\ coreg_call.called
         /\ \A i \in 1..Len(results.rows) :
              /\ result.x_source[i] = results.rows[i][1]
              /\ result.y_source[i] = results.rows[i][2]
              /\ result.x_shift[i] = results.rows[i][5]
              /\ result.y_shift[i] = results.rows[i][6]
         /\ Len(result.x_shift) = Len(results.rows)

\* a mosaic that has the source band and lacks the named target band is
\* skipped after an earlier mosaic was registered
C1_Witness ==
    /\ result.kind = "None"
    /\ source_band \in Range(bands_list)
    /\ target_band = "NIR"
    /\ Len(output_file.rows) = 1

\* C7 as stated: one entry per element of the band list, the entry of the
\* band at 1-based position i being the file numbered i with four digits.
C7_OneEntryPerElement ==
    bands_list # <<>> =>
        /\ Cardinality(DOMAIN bands_files) = Len(bands_list)
        /\ \A i \in 1..Len(bands_list) :
             /\ Len(bands_files[bands_list[i]].band) = 4
             /\ DigitsValue(bands_files[bands_list[i]].band) = i

\* C7, amended: one entry per distinct band name of the list, the entry of a
\* name being the file numbered, with four digits, by the last 1-based
\* position of that name, under the prefix made of the fresh directory and
\* the base name; so a list of distinct names has one entry per element, the
\* entry of position i numbered i.
C7_OneEntryPerName ==
    bands_list # <<>> =>
        /\ DOMAIN bands_files = Range(bands_list)
        /\ \A name \in Range(bands_list) :
             /\ Len(bands_files[name].band) = 4
             /\ DigitsValue(bands_files[name].band) = Max(Positions(bands_list, name))
             /\ \E t \in tmp : t.kind = "dir" /\ t.path.dir = bands_files[name].dir
        /\ (Cardinality(Range(bands_list)) = Len(bands_list) =>
              \A i \in 1..Len(bands_list) :
                  DigitsValue(bands_files[bands_list[i]].band) = i)

\* _explode has returned for a list that names NIR twice
C7_Witness ==
    /\ pc = "check"
    /\ bands_list = <<"NIR", "RED", "NIR">>
    /\ DOMAIN bands_files = {"NIR", "RED"}

\* '.cub' occurs in a name, said with SubSeq
HasCub(name) ==
    \E k \in 1..(Len(name) - 3) : SubSeq(name, k, k + 3) = <<".", "c", "u", "b">>

\* the list _bands returned for file i has the source and the target band
HadBothBands(i) ==
    \E p \in 1..Len(events) :
        /\ events[p][1] = "_bands"
        /\ events[p][2] = i
        /\ source_band \in Range(events[p][3])
        /\ target_band \in Range(events[p][3])

\* positions in tree of the files a row is due for, in traversal order
RowsDue ==
    LET due(i) == HasCub(tree[i]) /\ HadBothBands(i)
    IN  SelectSeq([i \in 1..Len(tree) |-> i], due)

\* C3: when main has completed, every candidate file and no other file was
\* put to the band check, and the report is the header, then one row per
\* candidate file whose mosaic had the source and the target band, in
\* traversal order and with that file's name, then the average row; nothing
\* else.
C3_ReportShape ==
    pc = "done" =>
        /\ \A i \in 1..Len(tree) :
             HasCub(tree[i]) <=> \E p \in 1..Len(events) :
                                    events[p][1] = "check" /\ events[p][2] = i
        /\ output_file.header = <<"filename", "x_shift", "y_shift">>
        /\ output_file.closed
        /\ Len(output_file.rows) = Len(RowsDue) + 1
        /\ \A k \in 1..Len(RowsDue) :
             output_file.rows[k].filename = tree[RowsDue[k]]
        /\ Last(output_file.rows).filename = <<"a", "v", "e", "r", "a", "g", "e">>

\* a completed run over a candidate skipped for its missing target band and
\* a candidate, named b.cub.x, that got its row
C3_Witness ==
    /\ pc = "done"
    /\ Len(tree) = 2
    /\ HasCub(tree[1]) /\ ~HadBothBands(1) /\ target_band = "NIR"
    /\ Len(output_file.rows) = 2
    /\ output_file.rows[1].filename = <<"b", ".", "c", "u", "b", ".", "x">>

RECURSIVE SumSeq(_)
SumSeq(s) == IF s = <<>> THEN 0 ELSE Head(s) + SumSeq(Tail(s))

\* the k-th smallest element of a non-empty sequence of numbers
KthSmallest(s, k) ==
    CHOOSE v \in Range(s) :
        /\ Cardinality({p \in 1..Len(s) : s[p] < v}) < k
        /\ k <= Cardinality({p \in 1..Len(s) : s[p] <= v})

\* twice the median: the sum of the two middle elements (the same element
\* twice when the length is odd)
TwiceMedian(s) ==
    KthSmallest(s, (Len(s) + 1) \div 2) + KthSmallest(s, (Len(s) + 2) \div 2)

\* the rational avg is the mean of the medians of the given sample sequences
IsMeanOfMedians(avg, samples) ==
    IF samples = <<>> THEN avg = NaN
    ELSE /\ avg[2] > 0
         /\ avg[1] * 2 * Len(samples)
              = avg[2] * SumSeq([k \in 1..Len(samples) |-> TwiceMedian(samples[k])])

\* C4: in the completed report the x and y of the average row are the means
\* of the medians of the x-shifts and of the y-shifts of exactly the rows
\* written before it, one median per row and axis.
C4_AverageOfMedians ==
    pc = "done" =>
        LET n == Len(output_file.rows) - 1
            data == SubSeq(output_file.rows, 1, n)
            avg == output_file.rows[n + 1]
        IN  /\ Len(x_shifts) = n
            /\ Len(y_shifts) = n
            /\ IsMeanOfMedians(avg.x_shift, [k \in 1..n |-> data[k].x_shift])
            /\ IsMeanOfMedians(avg.y_shift, [k \in 1..n |-> data[k].y_shift])

\* the single mosaic with x-shifts 1.0, 1.2, 0.9, 1.1, 1.0 and average 1.0
C4_Witness ==
    /\ pc = "done"
    /\ Len(output_file.rows) = 2
    /\ output_file.rows[1].x_shift = <<10, 12, 9, 11, 10>>
    /\ output_file.rows[2].x_shift = <<10, 1>>

ToolkitOps == {"explode", "_bands", "_size", "coreg"}

NoCandidates == \A i \in 1..Len(tree) : ~HasCub(tree[i])

\* C5: with no candidate in the input folder main raises nothing, runs no
\* toolkit command, keeps going until it is done, and ends with a report of
\* the header and an average row whose x and y are NaN.
C5_NoCandidates ==
    NoCandidates =>
        /\ raised = ""
        /\ pc \in {"walk", "done"}
        /\ \A p \in 1..Len(events) : events[p][1] \notin ToolkitOps
        /\ pc # "done" => ENABLED Next
        /\ pc = "done" =>
             /\ output_file.header = <<"filename", "x_shift", "y_shift">>
             /\ output_file.rows =
                  << [filename |-> <<"a", "v", "e", "r", "a", "g", "e">>,
                      x_shift |-> <<0, 0>>, y_shift |-> <<0, 0>>] >>

\* a completed run over a folder of two files neither of which is a candidate
C5_Witness ==
    /\ pc = "done"
    /\ Len(tree) = 2
    /\ NoCandidates
    /\ Len(output_file.rows) = 1

\* the event before position p is the operation op for the same file
After(p, op) ==
    /\ p > 1
    /\ events[p - 1][1] = op
    /\ events[p - 1][2] = events[p][2]

\* position p opens a new file: nothing before it, or the file before it was
\* finished by a skip at the band check or by its row
OpensFile(p) ==
    \/ p = 1
    \/ /\ events[p - 1][2] < events[p][2]
       /\ events[p - 1][1] \in {"check", "row"}

\* C9: mosaics are processed one at a time, each in the order split, band
\* check, register, render (only if visualize is set), row; nothing is done
\* for a file before the file before it is finished; the average row comes
\* last, after the whole walk.  Every row event is a row in the file at once,
\* so when the processing of a mosaic raises, every earlier mosaic that was
\* registered has its row in the report.
C9_OneAtATime ==
    /\ \A p \in 1..Len(events) :
         LET op == events[p][1] IN
         /\ op = "explode" => OpensFile(p)
         /\ op = "_bands" => After(p, "explode")
         /\ op = "check" => After(p, "_bands")
         /\ op = "coreg" => After(p, "check")
         /\ op = "_size" => visualize /\ After(p, "coreg")
         /\ op = "render" => visualize /\ After(p, "_size")
         /\ op = "row" => IF visualize THEN After(p, "render")
                                      ELSE After(p, "coreg")
         /\ op = "average" =>
              /\ p = Len(events)
              /\ events[p][2] = Len(tree) + 1
              /\ OpensFile(p)
         /\ op # "average" => events[p][2] \in 1..Len(tree)
    /\ LET written == {p \in 1..Len(events) : events[p][1] \in {"row", "average"}}
       IN  /\ Len(output_file.rows) = Cardinality(written)
           /\ \A p \in written :
                /\ Cardinality({q \in written : q <= p}) \in 1..Len(output_file.rows)
                /\ events[p][1] = "row" =>
                     output_file.rows[Cardinality({q \in written : q <= p})].filename
                        = tree[events[p][2]]
    /\ pc = "raised" =>
         \A j \in 1..(idx - 1) :
            (\E p \in 1..Len(events) : events[p] = <<"coreg", j, <<>> >>)
               => \E k \in 1..Len(output_file.rows) :
                     /\ output_file.rows[k].filename = tree[j]
                     /\ Cardinality({i \in 1..(j - 1) : \E p \in 1..Len(events) :
                                        events[p] = <<"coreg", i, <<>> >>}) = k - 1

\* the second mosaic fails after the first was rendered and got its row
C9_Witness ==
    /\ pc = "raised"
    /\ idx = 2
    /\ visualize
    /\ \E p \in 1..Len(events) : events[p] = <<"render", 1, <<>> >>
    /\ Len(output_file.rows) = 1
    /\ output_file.rows[1].filename = tree[1]

Terminated == pc \in {"done", "raised"}

\* C2: one mosaic's failure does not abort the batch: whenever main has
\* stopped, the walk has gone through every file and the report ends with
\* the average row.
C2_FailureIsolated ==
    Terminated =>
        /\ idx > Len(tree)
        /\ raised = ""
        /\ output_file.rows # <<>>
        /\ Last(output_file.rows).filename = <<"a", "v", "e", "r", "a", "g", "e">>

\* C6: a flat file with the header row and no data rows does not make the
\* processing of the mosaic raise; _register returns four empty sequences.
C6_NoTilesNoRaise ==
    (coreg_call.called /\ results.header /\ results.rows = <<>>) =>
        /\ pc # "raised"
        /\ result.kind = "shifts"
        /\ Len(result.x_source) = 0 /\ Len(result.y_source) = 0
        /\ Len(result.x_shift) = 0 /\ Len(result.y_shift) = 0

\* C8: every temporary directory or file that exists belongs to the mosaic
\* being processed; between mosaics and at the end there is none.
C8_TemporariesScoped ==
    \A t \in tmp :
        /\ pc \in {"check", "register", "render", "record"}
        /\ t.owner = idx

\* C10: the exit status of a toolkit command is checked and the output of a
\* command that failed is not used: coreg is never run on the band files of
\* an explode that exited with a non-zero status, and no shift samples come
\* from a coreg that exited with a non-zero status.
C10_StatusChecked ==
    /\ coreg_call.called => explode_status = 0
    /\ result.kind = "shifts" => coreg_call.status = 0
====
